---- MODULE Spec2Model ----
(***************************************************************************)
(* Model of aws_automation/main.py: the AWSClient class, which searches    *)
(* three directories for a template file, reads it, creates or deletes a   *)
(* CloudFormation stack, polls the stack events until a target status      *)
(* shows up, and creates an EC2 key pair whose private key it writes to a   *)
(* file.  The cloud API is the environment: every API call draws its        *)
(* outcome (a response or a ClientError) from a small set.                  *)
(***************************************************************************)
EXTENDS Integers, Sequences, FiniteSets, TLC

VARIABLES
    source_file_path, \* self.source_file_path, a path: sequence of components
    disk,             \* the files that exist, each a path
    body,             \* what every template file holds after its first byte
    pc,               \* where the running operation stands; "idle": none runs
    op,               \* the operation invoked last
    all_events,       \* wait_for_completion's all_events: the last event list
    out,              \* the line printed last
    exc,              \* the exception the last operation raised to its caller
    api_calls,        \* the API calls the last operation has made
    last_api,         \* the last API call of the last operation and its result
    request,          \* the arguments of the last create_stack API call
    polls,            \* loop iterations of the running wait (stops counting at MaxPolls)
    key_pairs,        \* EC2: the names of the key pairs that exist
    key_file,         \* the content of the file named self.ssh_key_file_name
    first_material,   \* per key name, the KeyMaterial of its first successful call
    names_called,     \* the key names create_key_pair has been called with
    target_file_name, \* the argument of the last direct find_file_path call
    found             \* the outcome of the last direct find_file_path call

vars == <<source_file_path, disk, body, pc, op, all_events, out, exc, api_calls,
          last_api, request, polls, key_pairs, key_file, first_material,
          names_called, target_file_name, found>>

fileVars == <<source_file_path, disk, body>>
keyVars == <<key_pairs, key_file, first_material, names_called>>
findVars == <<target_file_name, found>>

\* ------------------------------------------------------------ bounds
MaxDepth == 2
MaxEvents == 1
MaxPolls == 2

\* --------------------------------------------------------- constants
template_file_name == "launch_ec2.yml"
ssh_key_file_name == "key_pair.pem"
stack_name == "my-cloudformation-stack"
parameters ==
    << [ParameterKey |-> "InstanceType", ParameterValue |-> "t2.micro"],
       [ParameterKey |-> "KeyName", ParameterValue |-> "test_key_pair"] >>

None == "None"
NoFile == "NoFile"
NoCall == [call |-> None, result |-> None]
NoRequest == [StackName |-> None, TemplateBody |-> <<>>, Parameters |-> <<>>]

\* ------------------------------------------------------------- paths
SeqsUpTo(S, n) == UNION {[1..k -> S] : k \in 0..n}

\* The directories of the model: /, /d, /d/d, ...
Dirs == SeqsUpTo({"d"}, MaxDepth)
FileNames == {template_file_name, ssh_key_file_name}
SourceName == "main.py"

\* pathlib's parent: the last component dropped; the root is its own parent.
Parent(p) == IF Len(p) = 0 THEN p ELSE SubSeq(p, 1, Len(p) - 1)

JoinPath(directory, name) == Append(directory, name)

Exists(path) == path \in disk

\* The list the loop of find_file_path runs over.
CandidatesReversed(src) ==
    << Parent(Parent(Parent(src))), Parent(Parent(src)), Parent(src) >>

CandidateDirectories(src) ==
    << Parent(src), Parent(Parent(src)), Parent(Parent(Parent(src))) >>

Returned(v) == [raised |-> None, value |-> v]
Raised(e) == [raised |-> e, value |-> <<>>]

RECURSIVE FindIn(_, _, _)
FindIn(directories, name, i) ==
    IF i > Len(directories)
    THEN Raised("ValueError")
    ELSE IF Exists(JoinPath(directories[i], name))
         THEN Returned(JoinPath(directories[i], name))
         ELSE FindIn(directories, name, i + 1)

find_file_path(name) ==
    FindIn(CandidateDirectories(source_file_path), name, 1)

\* ---------------------------------------------------------- template
CR == "CR"
LF == "LF"
BadByte == "0xFF"
\* The bodies the template files are drawn from: with LF line ends, with a
\* lone CR and a CR LF line end, and one that is not UTF-8.
Bodies == { <<"a", LF>>, <<"a", CR, "b", CR, LF>>, <<BadByte>> }

\* The bytes of the file at `path`: each template starts with a byte that
\* tells its directory's depth, so that the copies differ.
FileBytes(path) == <<ToString(Len(path) - 1)>> \o body

\* A file read as it is on disk (binary mode).
BinaryRead(s) == s

\* open(mode="r") with the default newline=None: CR LF and a lone CR are
\* read as LF.
RECURSIVE UniversalNewlines(_)
UniversalNewlines(s) ==
    IF s = <<>> THEN <<>>
    ELSE IF Head(s) = CR
         THEN <<LF>> \o UniversalNewlines(
                  IF Len(s) > 1 /\ s[2] = LF THEN Tail(Tail(s)) ELSE Tail(s))
         ELSE <<Head(s)>> \o UniversalNewlines(Tail(s))

Range(s) == {s[i] : i \in 1..Len(s)}

\* encoding="utf-8": a byte that is not UTF-8 raises UnicodeDecodeError.
read_template ==
    LET template_file == find_file_path(template_file_name) IN
    IF template_file.raised # None THEN template_file
    ELSE IF BadByte \in Range(FileBytes(template_file.value))
         THEN Raised("UnicodeDecodeError")
         ELSE Returned(UniversalNewlines(FileBytes(template_file.value)))

\* ------------------------------------------------------------ events
StackStatuses == {"CREATE_COMPLETE", "DELETE_COMPLETE", "ROLLBACK_COMPLETE"}
\* An event of the stack's history: the resource it is about (the stack
\* itself or a resource of it), its status, and whether it was recorded
\* before or after the request the operation has just made.
Events ==
    [LogicalResourceId : {stack_name, "EC2Instance"},
     ResourceStatus : StackStatuses,
     Timestamp : {"before", "after"}]

\* What describe_stack_events may answer.
EventLists == SeqsUpTo(Events, MaxEvents)

\* statuses = [event.get("ResourceStatus") for event in all_events]
StatusesOf(events) == [i \in 1..Len(events) |-> events[i].ResourceStatus]

\* The status wait_for_completion is called with.
TargetOf(operation) ==
    IF operation = "create_stack_with_parameters"
    THEN "CREATE_COMPLETE" ELSE "DELETE_COMPLETE"

status == TargetOf(op)

\* The loop of wait_for_completion gives up after two rounds.
LoopConditionTimeout(target, statuses) ==
    target \notin Range(statuses) /\ polls < 2

\* The loop of wait_for_completion ends with the first event of any status.
LoopConditionAnyEvent(target, statuses) == statuses = <<>>

\* while status not in statuses
LoopCondition(target, statuses) == target \notin Range(statuses)

\* ---------------------------------------------------------- messages
KeyPairExists == "Key pair already exists."
StackAlreadyExists == "Stack already exists."
StackDoesNotExist == "Stack does not exist."
Dots == "..."
StackIs(target) == "Stack is " \o target \o "."

\* ---------------------------------------------------------- handlers
\* No except clause: the ClientError reaches the caller.
NoHandler == out' = out /\ exc' = "ClientError" /\ pc' = "idle"

\* except ClientError of create_stack_with_parameters
CreateStackHandler == out' = StackAlreadyExists /\ exc' = None /\ pc' = "idle"

\* except ClientError of delete_stack
DeleteStackHandler == out' = StackDoesNotExist /\ exc' = None /\ pc' = "idle"

\* The except clause of the operation that is running.
Handler ==
    IF op = "create_stack_with_parameters"
    THEN CreateStackHandler ELSE DeleteStackHandler

\* except Exception: any exception is taken for "already exists".
SwallowedByCreateStack(e) == out' = StackAlreadyExists /\ exc' = None

\* An exception that is no ClientError passes the except clause of
\* create_stack_with_parameters and reaches the caller.
UncaughtByCreateStack(e) == out' = out /\ exc' = e

\* The keyword arguments of the create_stack API call.
CreateStackRequest(raw_data) ==
    [StackName |-> stack_name, TemplateBody |-> raw_data, Parameters |-> parameters]

ApiResults == {"ok", "ClientError"}

\* -------------------------------------------------------- operations
create_stack_with_parameters ==
    /\ pc = "idle"
    /\ op' = "create_stack_with_parameters"
    /\ polls' = 0
    /\ all_events' = <<>>
    /\ LET raw_data == read_template IN
       \/ /\ raw_data.raised # None
          /\ UncaughtByCreateStack(raw_data.raised)
          /\ pc' = "idle"
          /\ api_calls' = {}
          /\ last_api' = NoCall
          /\ UNCHANGED request
       \/ /\ raw_data.raised = None
          /\ request' = CreateStackRequest(raw_data.value)
          /\ api_calls' = {"create_stack"}
          /\ \E result \in ApiResults :
                /\ last_api' = [call |-> "create_stack", result |-> result]
                /\ IF result = "ok"
                   THEN out' = out /\ exc' = None /\ pc' = "wait_first"
                   ELSE CreateStackHandler
    /\ UNCHANGED <<fileVars, keyVars, findVars>>

delete_stack ==
    /\ pc = "idle"
    /\ op' = "delete_stack"
    /\ polls' = 0
    /\ all_events' = <<>>
    /\ api_calls' = {"delete_stack"}
    /\ \E result \in ApiResults :
          /\ last_api' = [call |-> "delete_stack", result |-> result]
          /\ IF result = "ok"
             THEN out' = out /\ exc' = None /\ pc' = "wait_first"
             ELSE DeleteStackHandler
    /\ UNCHANGED <<fileVars, keyVars, findVars, request>>

\* One describe_stack_events call of wait_for_completion: the events are
\* kept, or the ClientError is handled by the operation that waits.
DescribeStackEvents(next_pc, line) ==
    /\ api_calls' = api_calls \cup {"describe_stack_events"}
    /\ \/ \E events \in EventLists :
             /\ last_api' = [call |-> "describe_stack_events", result |-> "ok"]
             /\ all_events' = events
             /\ out' = line
             /\ exc' = None
             /\ pc' = next_pc
       \/ /\ last_api' = [call |-> "describe_stack_events", result |-> "ClientError"]
          /\ all_events' = <<>>
          /\ Handler

\* wait_for_completion, up to the loop.
WaitFirst ==
    /\ pc = "wait_first"
    /\ DescribeStackEvents("wait_test", out)
    /\ UNCHANGED <<fileVars, keyVars, findVars, op, request, polls>>

\* The loop's test, and the return once the status is among the statuses.
WaitTest ==
    /\ pc = "wait_test"
    /\ IF LoopCondition(status, StatusesOf(all_events))
       THEN pc' = "wait_loop" /\ UNCHANGED <<out, all_events>>
       ELSE pc' = "idle" /\ out' = StackIs(status) /\ all_events' = <<>>
    /\ UNCHANGED <<fileVars, keyVars, findVars, op, request, polls, exc,
                   api_calls, last_api>>

\* The loop's body: sleep(5), the next describe_stack_events, print("...").
WaitLoop ==
    /\ pc = "wait_loop"
    /\ polls' = IF polls < MaxPolls THEN polls + 1 ELSE polls
    /\ DescribeStackEvents("wait_test", Dots)
    /\ UNCHANGED <<fileVars, keyVars, findVars, op, request>>

\* ---------------------------------------------------------- key pair
KeyNames == {"test_key_pair", "other_key_pair"}
Materials == {"pem-1", "pem-2"}
NoMaterial == "NoMaterial"
Stale == "stale"

\* EC2's answers to create_key_pair: a name that exists is refused; a new
\* name gets a key pair and its KeyMaterial, unless the call fails for
\* another reason.
CreateKeyPairResponses(key_name) ==
    IF key_name \in key_pairs
    THEN {[result |-> "ClientError", KeyMaterial |-> NoMaterial]}
    ELSE {[result |-> "ClientError", KeyMaterial |-> NoMaterial]}
         \cup [result : {"ok"}, KeyMaterial : Materials]

\* The file is opened for writing before the API call and is left empty.
CreateKeyPairHandlerTruncating ==
    out' = KeyPairExists /\ exc' = None /\ key_file' = ""

\* except ClientError of create_key_pair: the file is not touched.
CreateKeyPairHandler ==
    out' = KeyPairExists /\ exc' = None /\ key_file' = key_file

create_key_pair(key_name) ==
    /\ pc = "idle"
    /\ op' = "create_key_pair"
    /\ api_calls' = {"create_key_pair"}
    /\ names_called' = names_called \cup {key_name}
    /\ \E key_pair \in CreateKeyPairResponses(key_name) :
          /\ last_api' = [call |-> "create_key_pair", result |-> key_pair.result]
          /\ IF key_pair.result = "ok"
             THEN /\ key_pairs' = key_pairs \cup {key_name}
                  /\ key_file' = key_pair.KeyMaterial
                  /\ first_material' =
                        IF first_material[key_name] = NoMaterial
                        THEN [first_material EXCEPT ![key_name] = key_pair.KeyMaterial]
                        ELSE first_material
                  /\ out' = out
                  /\ exc' = None
             ELSE /\ CreateKeyPairHandler
                  /\ UNCHANGED <<key_pairs, first_material>>
    /\ UNCHANGED <<fileVars, findVars, pc, all_events, request, polls>>

\* A direct call of find_file_path.
CallFindFilePath(name) ==
    /\ pc = "idle"
    /\ target_file_name' = name
    /\ found' = find_file_path(name)
    /\ UNCHANGED <<fileVars, keyVars, pc, op, all_events, out, exc, api_calls,
                   last_api, request, polls>>

\* ------------------------------------------------------ initial states
SourcePaths == {JoinPath(d, SourceName) : d \in Dirs}
TemplatePaths == {JoinPath(d, template_file_name) : d \in Dirs}
AllPaths == {JoinPath(d, n) : d \in Dirs, n \in FileNames}

InitClient ==
    /\ pc = "idle"
    /\ op = None
    /\ all_events = <<>>
    /\ out = ""
    /\ exc = None
    /\ api_calls = {}
    /\ last_api = NoCall
    /\ request = NoRequest
    /\ polls = 0
    /\ names_called = {}
    /\ first_material = [k \in KeyNames |-> NoMaterial]
    /\ target_file_name = None
    /\ found = Raised(None)

\* One layout of the disk and of EC2: the source file at the bottom of the
\* tree, the template beside it or missing, no key pair, no key file.
Init ==
    /\ InitClient
    /\ source_file_path \in {p \in SourcePaths : Len(p) = MaxDepth + 1}
    /\ disk \in {{}, {JoinPath(Parent(source_file_path), template_file_name)}}
    /\ body = <<"a", LF>>
    /\ key_pairs = {}
    /\ key_file = NoFile

\* The source file at the bottom of the tree, any set of template files,
\* any body.
InitStack ==
    /\ InitClient
    /\ source_file_path \in {p \in SourcePaths : Len(p) = MaxDepth + 1}
    /\ disk \in SUBSET TemplatePaths
    /\ body \in Bodies
    /\ key_pairs = {}
    /\ key_file = NoFile

\* Any place of the source file, any set of files of the two names.
InitFiles ==
    /\ InitClient
    /\ source_file_path \in SourcePaths
    /\ disk \in SUBSET AllPaths
    /\ body = <<"a", LF>>
    /\ key_pairs = {}
    /\ key_file = NoFile

\* Any set of key pairs in EC2, the key file missing or left by an earlier
\* run with any content.
InitKeys ==
    /\ InitClient
    /\ source_file_path \in {p \in SourcePaths : Len(p) = MaxDepth + 1}
    /\ disk = {}
    /\ body = <<"a", LF>>
    /\ key_pairs \in SUBSET KeyNames
    /\ key_file \in {NoFile, Stale} \cup Materials

\* ------------------------------------------------------ specifications
StackNext ==
    \/ create_stack_with_parameters
    \/ delete_stack
    \/ WaitFirst
    \/ WaitTest
    \/ WaitLoop

Next ==
    \/ StackNext
    \/ \E key_name \in KeyNames : create_key_pair(key_name)

FilesNext == \E name \in FileNames : CallFindFilePath(name)

KeysNext == \E key_name \in KeyNames : create_key_pair(key_name)

\* The whole client.
Spec == Init /\ [][Next]_vars

\* The stack operations over every layout of the disk.
SpecStack == InitStack /\ [][StackNext]_vars

\* find_file_path over every layout of the disk.
SpecFiles == InitFiles /\ [][FilesNext]_vars

\* create_key_pair over every state of EC2.
SpecKeys == InitKeys /\ [][KeysNext]_vars

\* ============================================================ claims
\* The directory k levels above the source file, from the path itself.
Ancestor(k) ==
    SubSeq(source_file_path, 1,
           IF Len(source_file_path) > k THEN Len(source_file_path) - k ELSE 0)

\* The levels (1: the directory of the source file, 2: its parent, 3: its
\* grandparent) whose directory holds a file of this name.
Hits(name) == {k \in 1..3 : JoinPath(Ancestor(k), name) \in disk}

Least(S) == CHOOSE k \in S : \A j \in S : k <= j

\* The event list that was fetched last holds the status waited for.
TargetSeen == \E i \in DOMAIN all_events : all_events[i].ResourceStatus = TargetOf(op)

\* The step in which wait_for_completion returns to the operation.
WaitReturns == pc # "idle" /\ pc' = "idle" /\ last_api'.result = "ok"

\* C1: wait_for_completion(status) returns, printing that the stack is in
\* the status, only from an event list that holds an event of that
\* status; with a fetched list that does not hold it, the next step is
\* another round of the loop.
C1_ReturnsOnlyOnTargetStatus ==
    [][ /\ WaitReturns => TargetSeen /\ out' = StackIs(TargetOf(op))
        /\ (pc = "wait_test" /\ ~TargetSeen) => pc' = "wait_loop"
      ]_vars

\* C1: a create has returned from its wait after at least one more round.
C1_Witness ==
    /\ pc = "idle"
    /\ op = "create_stack_with_parameters"
    /\ last_api = [call |-> "describe_stack_events", result |-> "ok"]
    /\ out = StackIs("CREATE_COMPLETE")
    /\ polls >= 1

\* C2: a ClientError of any API call (create_key_pair, create_stack,
\* delete_stack, describe_stack_events inside the wait) never reaches the
\* caller: right after it the operation has ended normally, has printed
\* its message and makes no further API call.
C2_ClientErrorCaught ==
    /\ exc # "ClientError"
    /\ last_api.result = "ClientError" =>
          /\ pc = "idle"
          /\ exc = None
          /\ out = CASE op = "create_key_pair" -> KeyPairExists
                     [] op = "create_stack_with_parameters" -> StackAlreadyExists
                     [] op = "delete_stack" -> StackDoesNotExist

\* C2: describe_stack_events has failed in the loop of a delete's wait.
C2_Witness ==
    /\ op = "delete_stack"
    /\ last_api = [call |-> "describe_stack_events", result |-> "ClientError"]
    /\ out = StackDoesNotExist
    /\ pc = "idle"
    /\ polls >= 1

\* C3: the wait ends only with the status among the fetched statuses or
\* with a ClientError; it ends as soon as the status is there; and
\* without it the loop goes on, however many rounds it has made.
C3_NoTimeout ==
    [][ /\ (pc \in {"wait_first", "wait_test", "wait_loop"} /\ pc' = "idle")
              => (TargetSeen \/ last_api'.result = "ClientError")
        /\ (pc = "wait_test" /\ TargetSeen) => pc' = "idle"
        /\ (pc = "wait_test" /\ ~TargetSeen) => (pc' = "wait_loop" /\ polls' = polls)
        /\ pc = "wait_loop" => pc' \in {"wait_test", "idle"}
      ]_vars

\* C3: the stack has rolled back, and the create still polls after
\* MaxPolls rounds.
C3_Witness ==
    /\ pc = "wait_loop"
    /\ op = "create_stack_with_parameters"
    /\ polls = MaxPolls
    /\ all_events # <<>>
    /\ all_events[1] = [LogicalResourceId |-> stack_name,
                        ResourceStatus |-> "ROLLBACK_COMPLETE",
                        Timestamp |-> "after"]

C5_RaisesOnMultiple ==
    (/\ target_file_name # None
     /\ Cardinality({Ancestor(k) : k \in Hits(target_file_name)}) > 1)
        => found.raised = "ValueError"

\* The bytes of the template file that find_file_path locates.
LocatedBytes == FileBytes(JoinPath(Ancestor(Least(Hits(template_file_name))),
                                   template_file_name))

\* The places of `s` that text mode keeps: all but an LF right after a CR.
KeptPlaces(s) == {i \in 1..Len(s) : ~(s[i] = LF /\ i > 1 /\ s[i - 1] = CR)}

\* `s` as text mode reads it: every CR LF and every lone CR is an LF.
TextOf(s) ==
    LET kept == KeptPlaces(s)
        place(j) == CHOOSE i \in kept : Cardinality({k \in kept : k < i}) = j - 1
    IN  [j \in 1..Cardinality(kept) |->
            IF s[place(j)] = CR THEN LF ELSE s[place(j)]]

\* C6 as stated: the TemplateBody of the create_stack call is the content
\* of the located template file, unmodified, with the fixed stack name
\* and parameters.
C6_TemplateBodyIsFileContent ==
    request # NoRequest =>
        /\ request.TemplateBody = LocatedBytes
        /\ request.StackName = "my-cloudformation-stack"
        /\ request.Parameters =
              << [ParameterKey |-> "InstanceType", ParameterValue |-> "t2.micro"],
                 [ParameterKey |-> "KeyName", ParameterValue |-> "test_key_pair"] >>

\* C6 as amended: the TemplateBody of the create_stack call is the
\* content of the located template file as text mode reads it (every CR
\* LF and every lone CR replaced by LF, nothing else changed), with the
\* fixed stack name and parameters.
C6_TemplateBodyIsFileText ==
    request # NoRequest =>
        /\ request.TemplateBody = TextOf(LocatedBytes)
        /\ request.StackName = "my-cloudformation-stack"
        /\ request.Parameters =
              << [ParameterKey |-> "InstanceType", ParameterValue |-> "t2.micro"],
                 [ParameterKey |-> "KeyName", ParameterValue |-> "test_key_pair"] >>

\* C6: a create_stack call was made with a template that holds a CR and
\* lies in two of the candidate directories.
C6_Witness ==
    /\ request # NoRequest
    /\ Cardinality(Hits(template_file_name)) >= 2
    /\ CR \in Range(LocatedBytes)

\* C7: when wait_for_completion returns, the fetched events hold an event
\* of the stack itself, in the status waited for, recorded after the
\* request.
C7_StackItselfReachedStatus ==
    [][ WaitReturns =>
            \E i \in DOMAIN all_events :
                all_events[i] = [LogicalResourceId |-> stack_name,
                                 ResourceStatus |-> TargetOf(op),
                                 Timestamp |-> "after"]
      ]_vars

\* C8: "already exists" and "does not exist" are printed only when the
\* create_stack or delete_stack request itself was refused.
C8_MessageOnlyOnRefusedRequest ==
    (/\ last_api.result = "ClientError"
     /\ out \in {StackAlreadyExists, StackDoesNotExist})
        => last_api.call \in {"create_stack", "delete_stack"}

\* C9: with the template in none of the three directories,
\* create_stack_with_parameters raises ValueError to its caller and makes
\* no API call: no create_stack request exists.
C9_MissingTemplateRaises ==
    (op = "create_stack_with_parameters" /\ Hits(template_file_name) = {}) =>
        /\ exc = "ValueError"
        /\ pc = "idle"
        /\ api_calls = {}
        /\ last_api = NoCall
        /\ request = NoRequest

\* C9: a create has raised ValueError after a delete had printed its
\* message.
C9_Witness ==
    /\ op = "create_stack_with_parameters"
    /\ Hits(template_file_name) = {}
    /\ exc = "ValueError"
    /\ out = StackDoesNotExist

\* C10: a create_key_pair call that gets a ClientError leaves the key
\* file as it was; one that succeeds writes the KeyMaterial of its
\* response; and while all calls name the same key, the file holds the
\* KeyMaterial of the first call that succeeded.
C10_KeyFileKeepsFirstMaterial ==
    [][ last_api'.call = "create_key_pair" =>
          /\ last_api'.result = "ClientError" => key_file' = key_file
          /\ last_api'.result = "ok" =>
                \E k \in KeyNames :
                    /\ k \notin key_pairs
                    /\ key_pairs' = key_pairs \cup {k}
                    /\ first_material[k] = NoMaterial
                    /\ first_material'[k] \in Materials
                    /\ key_file' = first_material'[k]
          /\ \A k \in KeyNames :
                (names_called' = {k} /\ first_material'[k] # NoMaterial)
                    => key_file' = first_material'[k]
      ]_vars

\* C10: a second call for the same key name was refused, and the file
\* still holds the first call's KeyMaterial.
C10_Witness ==
    /\ names_called = {"test_key_pair"}
    /\ first_material["test_key_pair"] = "pem-1"
    /\ last_api = [call |-> "create_key_pair", result |-> "ClientError"]
    /\ key_file = "pem-1"

====
